---- MODULE Spec2Model ----
(***************************************************************************)
(* A model of qvault's key-distribution core: seeds, bundles, signed       *)
(* shares (src/src/seeds.rs) and the User operations that select, export   *)
(* and unlock them (src/src/user.rs).                                      *)
(*                                                                         *)
(* Cryptography is symbolic.  A signature is the pair (signing key, signed *)
(* bytes); a ciphertext is the pair (receiver key, plaintext); SHA-256 and *)
(* HKDF are injective, so a digest is represented by its preimage and a    *)
(* derived seed by (origin, label path).  Uids are small naturals.         *)
(***************************************************************************)
EXTENDS Naturals, Sequences, FiniteSets, TLC

VARIABLES users, server, sent, out, protocol

vars == <<users, server, sent, out, protocol>>

----------------------------------------------------------------------------
(* Bounds of the model *)

\* longest list of shares the backend stores / delivers
MaxShares == 2
\* longest list of database indices in one request
MaxReq == 2
\* most invite intents a user starts
MaxIntents == 1
\* most encrypted entries the database keeps
MaxCells == 1

----------------------------------------------------------------------------
(* Program constants *)

ROOT_ID == 0
GOD_ID == 0

----------------------------------------------------------------------------
(* Universe of the model *)

\* ids of the identities: god and two admins
Ids == {GOD_ID, 1, 2}
\* table and column names of the database
Tables == {1, 2}
Columns == {1}
\* the nodes of the locked file tree: the root and one directory below it
DirId == 5
AllNodes == {ROOT_ID, DirId}

\* Option<T>
None == [some |-> FALSE, val |-> <<>>]
Some(v) == [some |-> TRUE, val |-> v]

----------------------------------------------------------------------------
(* Sequences *)

Range(s) == {s[i] : i \in 1..Len(s)}

RECURSIVE Insert(_, _)
Insert(x, s) ==
    IF s = <<>> THEN <<x>>
    ELSE IF x <= Head(s) THEN <<x>> \o s
    ELSE <<Head(s)>> \o Insert(x, Tail(s))

\* Sorted::sorted: a sorted copy of a vector of Uids
RECURSIVE sorted(_)
sorted(s) == IF s = <<>> THEN <<>> ELSE Insert(Head(s), sorted(Tail(s)))

\* every enumeration without repetition of a finite set
Perms(S) ==
    {p \in [1..Cardinality(S) -> S] : \A i, j \in 1..Cardinality(S) : p[i] = p[j] => i = j}

\* HashMap::keys() collected and sorted
sorted_keys(m) == CHOOSE p \in Perms(DOMAIN m) : p = sorted(p)

\* HashMap::insert
insert(m, k, v) == [x \in DOMAIN m \cup {k} |-> IF x = k THEN v ELSE m[x]]

EmptyMap == [x \in {} |-> x]

----------------------------------------------------------------------------
(* Identities, signatures and asymmetric encryption *)

KeyOf(id) == id + 100
\* a key pair that belongs to none of the identities above
StrangerKey == KeyOf(9)

Private(id) == KeyOf(id)
Public(id) == [id |-> id, key |-> KeyOf(id)]
Identity(id) == [_priv |-> Private(id), _pub |-> Public(id)]

sign(_priv, msg) == [key |-> _priv, msg |-> msg]
verify(_pub, sig, msg) == sig.key = _pub.key /\ sig.msg = msg

\* serde_json of a Bundle, and bytes that are no Bundle
to_json(bundle) == [json |-> TRUE, val |-> bundle]
from_json_ok(bytes) == bytes.json
from_json(bytes) == bytes.val

encrypt(_pub, bundle) == [to |-> _pub.key, pt |-> to_json(bundle)]
decrypt_ok(_priv, payload) == payload.to = _priv
decrypt(_priv, payload) == payload.pt

----------------------------------------------------------------------------
(* Seeds and their derivation *)

derive_seed_with_label(identity, label) == [ns |-> label, key |-> identity, path |-> <<>>]
db_seed(identity) == derive_seed_with_label(identity, "db")
fs_seed(identity) == derive_seed_with_label(identity, "fs")

derive_table_seed_from_root(seed, table) ==
    [seed EXCEPT !.path = Append(@, table)]
derive_column_seed_from_table(seed, column) ==
    [seed EXCEPT !.path = Append(@, column)]
derive_column_seed_from_root(seed, table, column) ==
    derive_column_seed_from_table(derive_table_seed_from_root(seed, table), column)

\* the seed of one entry: the column seed expanded over the salt, by whatever
\* path the column seed is reached
derive_entry_seed_from_column(seed, salt) ==
    [seed EXCEPT !.path = Append(@, salt)]
derive_entry_seed_from_table(seed, column, salt) ==
    derive_entry_seed_from_column(derive_column_seed_from_table(seed, column), salt)
derive_entry_seed_from_root(seed, table, column, salt) ==
    derive_entry_seed_from_column(derive_column_seed_from_root(seed, table, column), salt)

\* database::Index
Table(t) == [kind |-> "Table", table |-> t, column |-> 0]
Column(t, c) == [kind |-> "Column", table |-> t, column |-> c]
Indices == {Table(t) : t \in Tables} \cup {Column(t, c) : t \in {1}, c \in Columns}

id_for_table(table) == 10 * table
id_for_column(table, column) == 10 * table + column
as_id(idx) ==
    IF idx.kind = "Table" THEN id_for_table(idx.table)
    ELSE id_for_column(idx.table, idx.column)

----------------------------------------------------------------------------
(* Bundle and Export, seeds.rs *)

NewBundle == [fs |-> EmptyMap, db |-> EmptyMap]
set_fs(bundle, id, seed) == [bundle EXCEPT !.fs = insert(@, id, seed)]
set_db(bundle, id, seed) == [bundle EXCEPT !.db = insert(@, id, seed)]

\* Export::from_bundle: the key lists come out in the HashMap's iteration
\* order, which is any order
from_bundle(bundle, receiver_id) ==
    {[receiver |-> receiver_id, fs |-> f, db |-> d] :
        f \in Perms(DOMAIN bundle.fs), d \in Perms(DOMAIN bundle.db)}

\* a slip: the lists are hashed in the order they have
hash_unsorted(export) == export.fs \o export.db \o <<export.receiver>>

\* Export::hash: the digest of sorted fs ids, sorted db ids and the receiver
hash(export) == sorted(export.fs) \o sorted(export.db) \o <<export.receiver>>

ctx_to_sign(sender, export) == <<sender.id>> \o hash(export)

----------------------------------------------------------------------------
(* The file system view, vault.rs *)

NodeSeed(n) == [ns |-> "fs", key |-> Private(GOD_ID), path |-> IF n = ROOT_ID THEN <<>> ELSE <<n>>]
Ancestors(n) == IF n = ROOT_ID THEN {n} ELSE {n, ROOT_ID}

from_locked_nodes(roots, bundles) ==
    [nodes |-> {n \in roots : \E a \in Ancestors(n) :
                    a \in DOMAIN bundles /\ bundles[a] = NodeSeed(a)}]
share_node_ok(fs, id) == id \in fs.nodes
share_node(fs, id) == NodeSeed(id)

----------------------------------------------------------------------------
(* User, user.rs *)

is_god(self) == self.identity._pub.id = GOD_ID

\* a slip: the test for god is left out
is_pending_signup_of_anyone(self) == self.imports = <<>>

is_pending_signup(self) == self.imports = <<>> /\ ~is_god(self)

\* imports.iter().flat_map(|im| &im.bundle.db).collect::<HashMap>(): an id held
\* by several imports keeps the seed of the last one
collect_db(imports) ==
    [k \in UNION {DOMAIN imports[i].bundle.db : i \in 1..Len(imports)} |->
        LET last == CHOOSE i \in 1..Len(imports) :
                        /\ k \in DOMAIN imports[i].bundle.db
                        /\ \A j \in (i + 1)..Len(imports) : k \notin DOMAIN imports[j].bundle.db
        IN  imports[last].bundle.db[k]]

collect_fs(imports) ==
    [k \in UNION {DOMAIN imports[i].bundle.fs : i \in 1..Len(imports)} |->
        LET last == CHOOSE i \in 1..Len(imports) :
                        /\ k \in DOMAIN imports[i].bundle.fs
                        /\ \A j \in (i + 1)..Len(imports) : k \notin DOMAIN imports[j].bundle.fs
        IN  imports[last].bundle.fs[k]]

\* fs_ids = Some(list): every id the file system can share
RECURSIVE fs_seeds_for_ids(_, _, _)
fs_seeds_for_ids(self, fs_ids, bundle) ==
    IF fs_ids = <<>> THEN bundle
    ELSE fs_seeds_for_ids(self, Tail(fs_ids),
            IF share_node_ok(self.fs, Head(fs_ids))
            THEN set_fs(bundle, Head(fs_ids), share_node(self.fs, Head(fs_ids)))
            ELSE bundle)

\* db_ids = Some(list), god: every index, derived from the own db seed
god_db_seed_for_index(seed, idx) ==
    IF idx.kind = "Table"
    THEN derive_table_seed_from_root(seed, idx.table)
    ELSE derive_column_seed_from_root(seed, idx.table, idx.column)

RECURSIVE god_db_seeds_for_ids(_, _, _)
god_db_seeds_for_ids(seed, db_ids, bundle) ==
    IF db_ids = <<>> THEN bundle
    ELSE god_db_seeds_for_ids(seed, Tail(db_ids),
            set_db(bundle, as_id(Head(db_ids)), god_db_seed_for_index(seed, Head(db_ids))))

\* a slip: a table that is not held is served from a held column of it
db_seed_for_index_ascending(imports, idx) ==
    LET id == as_id(idx)
        held_columns == {c \in Columns : id_for_column(idx.table, c) \in DOMAIN imports}
    IN
    IF id \in DOMAIN imports THEN Some(imports[id])
    ELSE IF idx.kind = "Table"
    THEN IF ROOT_ID \in DOMAIN imports
         THEN Some(derive_table_seed_from_root(imports[ROOT_ID], idx.table))
         ELSE IF held_columns # {}
              THEN Some(imports[id_for_column(idx.table, CHOOSE c \in held_columns : TRUE)])
              ELSE None
    ELSE IF id_for_table(idx.table) \in DOMAIN imports
         THEN Some(derive_column_seed_from_table(imports[id_for_table(idx.table)], idx.column))
         ELSE IF ROOT_ID \in DOMAIN imports
              THEN Some(derive_column_seed_from_root(imports[ROOT_ID], idx.table, idx.column))
              ELSE None

\* a slip: a column that is not held is never derived from the seed of its table
db_seed_for_index_without_table(imports, idx) ==
    LET id == as_id(idx) IN
    IF id \in DOMAIN imports THEN Some(imports[id])
    ELSE IF ROOT_ID \in DOMAIN imports
    THEN Some(IF idx.kind = "Table"
              THEN derive_table_seed_from_root(imports[ROOT_ID], idx.table)
              ELSE derive_column_seed_from_root(imports[ROOT_ID], idx.table, idx.column))
    ELSE None

\* a slip: a column that is not held is derived from the root seed before the
\* seed of its table is tried
db_seed_for_index_root_first(imports, idx) ==
    LET id == as_id(idx) IN
    IF id \in DOMAIN imports THEN Some(imports[id])
    ELSE IF ROOT_ID \in DOMAIN imports
    THEN Some(IF idx.kind = "Table"
              THEN derive_table_seed_from_root(imports[ROOT_ID], idx.table)
              ELSE derive_column_seed_from_root(imports[ROOT_ID], idx.table, idx.column))
    ELSE IF idx.kind = "Column" /\ id_for_table(idx.table) \in DOMAIN imports
    THEN Some(derive_column_seed_from_table(imports[id_for_table(idx.table)], idx.column))
    ELSE None

\* db_ids = Some(list), not god: the imported seed of the index, else the seed
\* derived from an imported ancestor, else nothing
db_seed_for_index(imports, idx) ==
    LET id == as_id(idx) IN
    IF id \in DOMAIN imports THEN Some(imports[id])
    ELSE IF idx.kind = "Table"
    THEN IF ROOT_ID \in DOMAIN imports
         THEN Some(derive_table_seed_from_root(imports[ROOT_ID], idx.table))
         ELSE None
    ELSE IF id_for_table(idx.table) \in DOMAIN imports
         THEN Some(derive_column_seed_from_table(imports[id_for_table(idx.table)], idx.column))
         ELSE IF ROOT_ID \in DOMAIN imports
              THEN Some(derive_column_seed_from_root(imports[ROOT_ID], idx.table, idx.column))
              ELSE None

RECURSIVE db_seeds_for_ids(_, _, _)
db_seeds_for_ids(imports, db_ids, bundle) ==
    IF db_ids = <<>> THEN bundle
    ELSE LET seed == db_seed_for_index(imports, Head(db_ids)) IN
         db_seeds_for_ids(imports, Tail(db_ids),
            IF seed.some THEN set_db(bundle, as_id(Head(db_ids)), seed.val) ELSE bundle)

\* a slip: with an absent list only the first import is shared
seeds_for_ids_first_import_only(self, fs_ids, db_ids) ==
    LET identity == self.identity._priv
        first == IF self.imports = <<>> THEN <<>> ELSE <<Head(self.imports)>>
        with_fs ==
            IF fs_ids.some THEN fs_seeds_for_ids(self, fs_ids.val, NewBundle)
            ELSE IF is_god(self) THEN set_fs(NewBundle, ROOT_ID, fs_seed(identity))
            ELSE [NewBundle EXCEPT !.fs = collect_fs(first)]
    IN  IF db_ids.some
        THEN IF is_god(self)
             THEN god_db_seeds_for_ids(db_seed(identity), db_ids.val, with_fs)
             ELSE db_seeds_for_ids(collect_db(self.imports), db_ids.val, with_fs)
        ELSE IF is_god(self) THEN set_db(with_fs, ROOT_ID, db_seed(identity))
        ELSE [with_fs EXCEPT !.db = collect_db(first)]

seeds_for_ids(self, fs_ids, db_ids) ==
    LET identity == self.identity._priv
        with_fs ==
            IF fs_ids.some THEN fs_seeds_for_ids(self, fs_ids.val, NewBundle)
            ELSE IF is_god(self) THEN set_fs(NewBundle, ROOT_ID, fs_seed(identity))
            ELSE [NewBundle EXCEPT !.fs = collect_fs(self.imports)]
    IN  IF db_ids.some
        THEN IF is_god(self)
             THEN god_db_seeds_for_ids(db_seed(identity), db_ids.val, with_fs)
             ELSE db_seeds_for_ids(collect_db(self.imports), db_ids.val, with_fs)
        ELSE IF is_god(self) THEN set_db(with_fs, ROOT_ID, db_seed(identity))
        ELSE [with_fs EXCEPT !.db = collect_db(self.imports)]

\* a slip: the bundle is encrypted to the sender's own key
export_seeds_to_identity_sealed_to_self(self, fs_ids, db_ids, receiver) ==
    LET bundle == seeds_for_ids(self, fs_ids, db_ids)
        _pub == self.identity._pub
        encrypted == encrypt(_pub, bundle)
    IN  {[sender |-> _pub,
          export |-> export,
          payload |-> encrypted,
          sig |-> sign(self.identity._priv, ctx_to_sign(_pub, export))] :
            export \in from_bundle(bundle, receiver.id)}

\* one LockedShare for each order in which from_bundle may list the keys
export_seeds_to_identity(self, fs_ids, db_ids, receiver) ==
    LET bundle == seeds_for_ids(self, fs_ids, db_ids)
        _pub == self.identity._pub
        encrypted == encrypt(receiver, bundle)
    IN  {[sender |-> _pub,
          export |-> export,
          payload |-> encrypted,
          sig |-> sign(self.identity._priv, ctx_to_sign(_pub, export))] :
            export \in from_bundle(bundle, receiver.id)}

\* password_lock::lock
lock(bundle, pin) == [pin |-> pin, pt |-> to_json(bundle)]

\* a slip: the export names the sender as the receiver
invite_addressed_to_sender(self, email, pin, fs_ids, db_ids, receiver_id) ==
    LET bundle == seeds_for_ids(self, fs_ids, db_ids)
        payload == lock(bundle, pin)
    IN  {[user_id |-> receiver_id,
          sender |-> self.identity._pub,
          ref_src |-> email,
          payload |-> payload,
          export |-> export,
          sig |-> sign(self.identity._priv, ctx_to_sign(self.identity._pub, export))] :
            export \in from_bundle(bundle, self.identity._pub.id)}

\* receiver_id is the value Uid::generate() returns
invite_with_seeds_for_email_and_pin(self, email, pin, fs_ids, db_ids, receiver_id) ==
    LET bundle == seeds_for_ids(self, fs_ids, db_ids)
        payload == lock(bundle, pin)
    IN  {[user_id |-> receiver_id,
          sender |-> self.identity._pub,
          ref_src |-> email,
          payload |-> payload,
          export |-> export,
          sig |-> sign(self.identity._priv, ctx_to_sign(self.identity._pub, export))] :
            export \in from_bundle(bundle, receiver_id)}

\* InviteIntent::ctx_to_sign: the bytes of the sender's id, of ref_src, of the
\* receiver's id, of the fs ids and of the ids of the db indices, one after the
\* other; an absent list gives no bytes.  A Uid is one word of eight bytes and
\* ref_src is the list of the words of its bytes
InviteIntent_ctx_to_sign(sender, ref_src, receiver, fs_ids, db_ids) ==
    <<sender>> \o ref_src \o <<receiver>>
        \o (IF fs_ids.some THEN fs_ids.val ELSE <<>>)
        \o (IF db_ids.some THEN [i \in 1..Len(db_ids.val) |-> as_id(db_ids.val[i])] ELSE <<>>)

start_invite_intent_with_seeds_for_ref_src(self, ref_src, user_id, fs_ids, db_ids) ==
    LET to_sign == InviteIntent_ctx_to_sign(self.identity._pub.id, ref_src, user_id,
                                            fs_ids, db_ids)
    IN  [ref_src |-> ref_src,
         sender |-> self.identity._pub,
         sig |-> sign(self.identity._priv, to_sign),
         user_id |-> user_id,
         receiver |-> None,
         fs_ids |-> fs_ids,
         db_ids |-> db_ids]

\* a slip: the sender's id is not compared with the caller's
intent_accepted_of_any_sender(self, int) ==
    LET to_sign == InviteIntent_ctx_to_sign(int.sender.id, int.ref_src, int.user_id,
                                            int.fs_ids, int.db_ids)
    IN  /\ int.receiver.some
        /\ verify(int.sender, int.sig, to_sign)

\* the intent is turned into a share
intent_accepted(self, int) ==
    LET to_sign == InviteIntent_ctx_to_sign(int.sender.id, int.ref_src, int.user_id,
                                            int.fs_ids, int.db_ids)
    IN  /\ int.receiver.some
        /\ int.sender.id = self.identity._pub.id
        /\ verify(int.sender, int.sig, to_sign)

\* one FinishInviteIntent for each kept intent, in order
RECURSIVE finish_each(_, _)
finish_each(self, kept) ==
    IF kept = <<>> THEN {<<>>}
    ELSE LET int == Head(kept) IN
         {<<[ref_src |-> int.ref_src, share |-> share]>> \o rest :
            share \in export_seeds_to_identity(self, int.fs_ids, int.db_ids,
                                               int.receiver.val),
            rest \in finish_each(self, Tail(kept))}

\* the lists finish_invite_intents may return: one for each order in which
\* from_bundle may list the keys of a share
finish_invite_intents(self, intents) ==
    finish_each(self, SelectSeq(intents, LAMBDA int : intent_accepted(self, int)))

----------------------------------------------------------------------------
(* Encryption of database entries, user.rs *)

Ok(v) == [tag |-> "Ok", val |-> v]
Err(e) == [tag |-> "Err", val |-> e]

\* SeedById::seed_by_id: the seed of the first bundle that holds the id
seed_by_id(bundles, id) ==
    LET holders == {n \in 1..Len(bundles) : id \in DOMAIN bundles[n]} IN
    IF holders = {} THEN None
    ELSE Some(bundles[CHOOSE n \in holders : \A m \in holders : n <= m][id])

\* aes_gcm::Aes of a key and iv expanded from a seed; encryption is
\* authenticated, so only the same key decrypts
Aes_from(seed) == [key |-> seed]
aes_encrypt(aes, pt) == [key |-> aes.key, pt |-> pt]
aes_decrypt(aes, ct) == IF ct.key = aes.key THEN Ok(ct.pt) ELSE Err("BadKey")

\* serde_json of encrypted::Encrypted, and a string that is no Encrypted
encrypted_to_string(ct, salt) == [json |-> TRUE, val |-> [ct |-> ct, salt |-> salt]]
encrypted_from_str(str) == IF str.json THEN Ok(str.val) ELSE Err("BadJson")

\* a slip: the seed of the table is used as if it were the seed of the column
aes_for_entry_in_table_as_column(self, table, column, salt) ==
    LET bundles == [n \in 1..Len(self.imports) |-> self.imports[n].bundle.db]
        from_col == seed_by_id(bundles, id_for_column(table, column))
        from_table == seed_by_id(bundles, id_for_table(table))
        from_root == seed_by_id(bundles, ROOT_ID)
    IN  IF from_col.some
        THEN Ok(Aes_from(derive_entry_seed_from_column(from_col.val, salt)))
        ELSE IF from_table.some
        THEN Ok(Aes_from(derive_entry_seed_from_column(from_table.val, salt)))
        ELSE IF from_root.some
        THEN Ok(Aes_from(derive_entry_seed_from_root(from_root.val, table, column, salt)))
        ELSE IF is_god(self)
        THEN Ok(Aes_from(derive_entry_seed_from_root(db_seed(self.identity._priv),
                                                     table, column, salt)))
        ELSE Err("NoAccess")

aes_for_entry_in_table(self, table, column, salt) ==
    LET bundles == [n \in 1..Len(self.imports) |-> self.imports[n].bundle.db]
        from_col == seed_by_id(bundles, id_for_column(table, column))
        from_table == seed_by_id(bundles, id_for_table(table))
        from_root == seed_by_id(bundles, ROOT_ID)
    IN  IF from_col.some
        THEN Ok(Aes_from(derive_entry_seed_from_column(from_col.val, salt)))
        ELSE IF from_table.some
        THEN Ok(Aes_from(derive_entry_seed_from_table(from_table.val, column, salt)))
        ELSE IF from_root.some
        THEN Ok(Aes_from(derive_entry_seed_from_root(from_root.val, table, column, salt)))
        ELSE IF is_god(self)
        THEN Ok(Aes_from(derive_entry_seed_from_root(db_seed(self.identity._priv),
                                                     table, column, salt)))
        ELSE Err("NoAccess")

\* salt is the value Salt::generate() returns
encrypt_db_entry(self, table, pt, column, salt) ==
    LET aes == aes_for_entry_in_table(self, table, column, salt) IN
    IF aes.tag = "Err" THEN aes
    ELSE Ok(encrypted_to_string(aes_encrypt(aes.val, pt), salt))

\* a slip: the seed is looked up before the input is parsed
decrypt_db_entry_access_first(self, table, encrypted, column) ==
    LET aes == aes_for_entry_in_table(self, table, column, encrypted.val.salt)
        parsed == encrypted_from_str(encrypted)
    IN  IF aes.tag = "Err" THEN aes
        ELSE IF parsed.tag = "Err" THEN Err("BadJson")
        ELSE aes_decrypt(aes.val, parsed.val.ct)

decrypt_db_entry(self, table, encrypted, column) ==
    LET parsed == encrypted_from_str(encrypted) IN
    IF parsed.tag = "Err" THEN Err("BadJson")
    ELSE LET aes == aes_for_entry_in_table(self, table, column, parsed.val.salt) IN
         IF aes.tag = "Err" THEN aes
         ELSE aes_decrypt(aes.val, parsed.val.ct)

----------------------------------------------------------------------------
(* unlock_with_params, user.rs *)

\* a slip: the keys of bundle.db are not compared with export.db
import_accepted_without_db_quantity(s, _priv, _pub) ==
    /\ s.export.receiver = _pub.id
    /\ decrypt_ok(_priv, s.payload)
    /\ from_json_ok(decrypt(_priv, s.payload))
    /\ LET bundle == from_json(decrypt(_priv, s.payload))
           to_sign == ctx_to_sign(s.sender, s.export)
       IN  /\ verify(s.sender, s.sig, to_sign)
           /\ sorted_keys(bundle.fs) = sorted(s.export.fs)

\* the share becomes an import
import_accepted(s, _priv, _pub) ==
    /\ s.export.receiver = _pub.id
    /\ decrypt_ok(_priv, s.payload)
    /\ from_json_ok(decrypt(_priv, s.payload))
    /\ LET bundle == from_json(decrypt(_priv, s.payload))
           to_sign == ctx_to_sign(s.sender, s.export)
       IN  /\ verify(s.sender, s.sig, to_sign)
           /\ sorted_keys(bundle.fs) = sorted(s.export.fs)
           /\ sorted_keys(bundle.db) = sorted(s.export.db)

import_of(s, _priv) ==
    [sender |-> s.sender, bundle |-> from_json(decrypt(_priv, s.payload))]

\* a slip: the signature is not verified again
export_accepted_unverified(s, _pub) == s.sender.id = _pub.id

\* a slip: the sender's id is not compared with the user's
export_accepted_of_any_sender(s, _pub) ==
    verify(s.sender, s.sig, ctx_to_sign(s.sender, s.export))

\* the share's export is retained
export_accepted(s, _pub) ==
    /\ s.sender.id = _pub.id
    /\ verify(s.sender, s.sig, ctx_to_sign(s.sender, s.export))

unlock_with_params(_priv, _pub, shares, roots) ==
    LET \* iter().filter_map(..).collect(): the kept shares, in the order of the list
        kept_in == SelectSeq(shares, LAMBDA s : import_accepted(s, _priv, _pub))
        imports == [i \in 1..Len(kept_in) |-> import_of(kept_in[i], _priv)]
        kept_out == SelectSeq(shares, LAMBDA s : export_accepted(s, _pub))
        exports == [i \in 1..Len(kept_out) |-> kept_out[i].export]
        bundles == IF _pub.id = GOD_ID
                   THEN insert(EmptyMap, ROOT_ID, fs_seed(_priv))
                   ELSE collect_fs(imports)
        fs == from_locked_nodes(roots, bundles)
    IN  [tag |-> "Ok",
         user |-> [identity |-> [_priv |-> _priv, _pub |-> _pub],
                   imports |-> imports,
                   exports |-> exports,
                   fs |-> fs]]

----------------------------------------------------------------------------
(* Protocol, protocol.rs.  fs is self.user.fs: the nodes of the local file *)
(* system by id, each with its parent_id, its dirty flag and its kind      *)

NO_PARENT_ID == 99

Node(id, parent_id, dir, dirty) ==
    [id |-> id, parent_id |-> parent_id, dir |-> dir, dirty |-> dirty, name |-> ToString(id)]

\* FileSystem::node_by_id
node_by_id(fs, id) == IF id \in DOMAIN fs THEN Some(fs[id]) ELSE None

\* the children of a directory
children(fs, id) == {n \in DOMAIN fs : fs[n].parent_id = id}

\* FileSystem::ls_root: the nodes whose parent is not in the local file system
ls_root(fs) == {n \in DOMAIN fs : fs[n].parent_id \notin DOMAIN fs}

\* FileSystem::add_or_update_subtree, by its outcome: it fails and leaves the
\* file system as it is, or it adds the nodes under parent and parent comes out
\* clean, or it adds them and parent is dirty still (a stale subtree)
add_or_update_subtree(fs, nodes, parent, outcome) ==
    IF outcome = "failed" THEN [tag |-> "Err", fs |-> fs]
    ELSE [tag |-> "Ok",
          fs |-> [n \in DOMAIN fs \cup {node.id : node \in nodes} |->
                    IF n = parent THEN [fs[n] EXCEPT !.dirty = (outcome = "dirty")]
                    ELSE IF n \in DOMAIN fs THEN fs[n]
                    ELSE CHOOSE node \in nodes : node.id = n]]

Reverse(s) == [i \in 1..Len(s) |-> s[Len(s) + 1 - i]]

\* the walk up the parent_ids that collects the breadcrumbs, nearest first
RECURSIVE walk(_, _)
walk(fs, cur) ==
    IF cur = NO_PARENT_ID THEN <<>>
    ELSE <<cur>> \o walk(fs, IF cur \in DOMAIN fs THEN fs[cur].parent_id ELSE NO_PARENT_ID)

\* the walk from cur comes back to a node it has pushed already (seen): the
\* loop "while cur != NO_PARENT_ID" has no other exit and never ends
RECURSIVE cyclic(_, _, _)
cyclic(fs, cur, seen) ==
    IF cur = NO_PARENT_ID \/ cur \notin DOMAIN fs THEN FALSE
    ELSE IF cur \in seen THEN TRUE
    ELSE cyclic(fs, fs[cur].parent_id, seen \cup {cur})

\* the DirView of a clean node: DirView::try_from with the breadcrumbs
dir_view(fs, id) ==
    IF fs[id].dir
    THEN Ok([items |-> children(fs, id), name |-> fs[id].name,
             breadcrumbs |-> Reverse(walk(fs, fs[id].parent_id))])
    ELSE Err("BadOperation")

Pending == [tag |-> "Pending", val |-> ""]

\* a call returns res; inside the unwrap() of cd_to_root an error is a panic
returned(res, cd, unwrap) ==
    IF unwrap /\ res.tag = "Err"
    THEN [pc |-> "panic", cd |-> cd, unwrap |-> unwrap, res |-> res]
    ELSE [pc |-> "idle", cd |-> cd, unwrap |-> FALSE, res |-> res]

\* ls_node that takes every node for a clean one
ls_node_without_refresh(fs, id, unwrap) ==
    returned(dir_view(fs, id), Some(id), unwrap)

\* ls_cur_mut_impl for a cd that resolves to a node: up to the await of
\* fetch_subtree when the node is dirty, else up to the return
ls_node(fs, id, unwrap) ==
    IF fs[id].dirty
    THEN [pc |-> "fetch", cd |-> Some(id), unwrap |-> unwrap, res |-> Pending]
    ELSE IF cyclic(fs, fs[id].parent_id, {})
         THEN [pc |-> "hung", cd |-> Some(id), unwrap |-> unwrap, res |-> Pending]
         ELSE returned(dir_view(fs, id), Some(id), unwrap)

\* cd_to_root that unsets cd and lists the top nodes, root node or not
cd_to_root_unset(fs) ==
    returned(Ok([items |-> ls_root(fs), name |-> "~", breadcrumbs |-> <<>>]), None, FALSE)

cd_to_root(fs) ==
    IF node_by_id(fs, ROOT_ID).some
    THEN ls_node(fs, ROOT_ID, TRUE)
    ELSE returned(Ok([items |-> ls_root(fs), name |-> "~", breadcrumbs |-> <<>>]),
                  None, FALSE)

ls_cur_mut_impl(fs, cd, unwrap) ==
    IF cd.some /\ node_by_id(fs, cd.val).some
    THEN ls_node(fs, cd.val, unwrap)
    ELSE cd_to_root(fs)

\* cd_to_dir that goes to the root whatever the id
cd_to_dir_to_root(fs, id) == cd_to_root(fs)

cd_to_dir(fs, id) == ls_cur_mut_impl(fs, Some(id), FALSE)

\* go_back that goes to the root from wherever cd is
go_back_to_root(fs, cd) == cd_to_root(fs)

go_back(fs, cd) ==
    IF cd.some /\ node_by_id(fs, cd.val).some
    THEN cd_to_dir(fs, fs[cd.val].parent_id)
    ELSE cd_to_root(fs)

\* ls_cur_mut_impl from the return of fetch_subtree(id): the error as it is,
\* or the update of the file system and the call of itself
after_fetch(fs, id, unwrap, fetched, outcome) ==
    IF fetched.tag = "Err"
    THEN [fs |-> fs] @@ returned(fetched, Some(id), unwrap)
    ELSE LET updated == add_or_update_subtree(fs, fetched.val, id, outcome) IN
         IF updated.tag = "Err"
         THEN [fs |-> fs] @@ returned(Err("NotFound"), Some(id), unwrap)
         ELSE [fs |-> updated.fs] @@ ls_cur_mut_impl(updated.fs, Some(id), unwrap)

----------------------------------------------------------------------------
(* The system: the clients' unlocked Users (users), the shares the backend *)
(* stores (server), for each stored share the bundle its sender packaged   *)
(* (sent), and the last call with its arguments and its result (out)       *)

FsRequests == {None, Some(<<DirId>>)}
\* the lists of at most MaxReq indices, in the order of their ids
IndexLists ==
    {l \in UNION {Perms(S) : S \in {S \in SUBSET Indices : Cardinality(S) <= MaxReq}} :
        \A i \in 1..(Len(l) - 1) : as_id(l[i]) < as_id(l[i + 1])}
DbRequests == {None} \cup {Some(l) : l \in IndexLists}
\* what Uid::generate() may return
FreshIds == {7}
Emails == {"eve@mail.com"}
Pins == {"666"}

\* the shares the backend returns to user id (seeds.rs, LockedShare)
shares_of(id) == SelectSeq(server, LAMBDA s : s.sender.id = id \/ s.export.receiver = id)

\* a user right after signup: nothing shared with it yet
Fresh(id) == unlock_with_params(Private(id), Public(id), <<>>, AllNodes).user
God == Fresh(GOD_ID)

\* no Protocol was made yet
NoProtocol == [pc |-> "closed", cd |-> None, fs |-> EmptyMap, unwrap |-> FALSE]

Init ==
    /\ users = [id \in Ids |-> Fresh(id)]
    /\ server = <<>>
    /\ sent = <<>>
    /\ out = [op |-> "init"]
    /\ protocol = NoProtocol

\* a user exports seeds to an identity further down the chain and the backend
\* stores the share
ExportSeeds ==
    \E id \in Ids, to \in Ids, fs_ids \in FsRequests, db_ids \in DbRequests :
        /\ id < to
        /\ Len(server) < MaxShares
        /\ \E share \in export_seeds_to_identity(users[id], fs_ids, db_ids, Public(to)) :
            /\ server' = Append(server, share)
            /\ out' = [op |-> "export", self |-> users[id], fs_ids |-> fs_ids,
                       db_ids |-> db_ids, receiver |-> Public(to), share |-> share]
        /\ sent' = Append(sent, [sender |-> users[id].identity._pub,
                                 bundle |-> seeds_for_ids(users[id], fs_ids, db_ids)])
        /\ UNCHANGED <<users, protocol>>

\* a user unlocks with the shares the backend returns
Unlock ==
    \E id \in Ids :
        LET res == unlock_with_params(Private(id), Public(id), shares_of(id), AllNodes) IN
        /\ users' = [users EXCEPT ![id] = res.user]
        /\ out' = [op |-> "unlock", _priv |-> Private(id), _pub |-> Public(id),
                   shares |-> shares_of(id), res |-> res]
        /\ UNCHANGED <<server, sent, protocol>>

Next == ExportSeeds \/ Unlock

Spec == Init /\ [][Next]_vars

----------------------------------------------------------------------------
(* The backend delivers what it likes: shares users made, and shares it    *)
(* altered or made up                                                      *)

Admin == unlock_with_params(Private(1), Public(1),
            <<CHOOSE s \in export_seeds_to_identity(God, None, None, Public(1)) : TRUE>>,
            AllNodes).user

\* shares made by calls of export_seeds_to_identity
MadeShares ==
    UNION {export_seeds_to_identity(God, None, None, Public(1)),
           export_seeds_to_identity(God, Some(<<DirId>>),
                                    Some(<<Table(1), Column(1, 1)>>), Public(1)),
           export_seeds_to_identity(God, Some(<<>>), Some(<<>>), Public(1)),
           export_seeds_to_identity(Admin, None, Some(<<Table(1)>>), Public(2)),
           export_seeds_to_identity(Admin, None, None, Public(GOD_ID))}

\* a signature with a flipped bit verifies for nothing
BadSig == [key |-> 0, msg |-> <<>>]
\* bytes that parse as no Bundle
Junk == [json |-> FALSE, val |-> NewBundle]
\* a seed of the backend's own making
JunkSeed == [ns |-> "db", key |-> StrangerKey, path |-> <<>>]
MadeUpBundle(fs_keys, db_keys) ==
    [fs |-> [k \in fs_keys |-> JunkSeed], db |-> [k \in db_keys |-> JunkSeed]]
Impostor(id) == [id |-> id, key |-> StrangerKey]

\* what the backend can turn a share into without any user's private key
Forgeries(b) ==
    LET fs == Range(b.export.fs)
        db == Range(b.export.db)
        to == Public(b.export.receiver)
        more_fs == [b.export EXCEPT !.fs = Append(@, DirId)]
        twice_db == [b.export EXCEPT !.db = @ \o @]
        \* the first db id goes over to the end of the fs list
        moved == [b.export EXCEPT !.fs = Append(@, Head(sorted(b.export.db))),
                                  !.db = Tail(sorted(b.export.db))]
    IN  (IF b.export.db # <<>>
         THEN {[b EXCEPT !.export = moved],
               [b EXCEPT !.export = moved,
                         !.payload = encrypt(to, MadeUpBundle(Range(moved.fs),
                                                              Range(moved.db)))]}
         ELSE {})
        \cup
        {[b EXCEPT !.sig = BadSig],
         [b EXCEPT !.export = more_fs],
         [b EXCEPT !.export.db = Append(@, id_for_table(2))],
         [b EXCEPT !.payload.pt = Junk],
         [b EXCEPT !.payload.to = StrangerKey],
         [b EXCEPT !.payload = encrypt(to, MadeUpBundle(fs, db))],
         [b EXCEPT !.payload = encrypt(to, MadeUpBundle(fs \cup {DirId}, db))],
         [b EXCEPT !.payload = encrypt(to, MadeUpBundle(fs, db \cup {id_for_table(2)}))],
         [b EXCEPT !.payload = encrypt(to, MadeUpBundle({}, db))],
         [b EXCEPT !.payload = encrypt(to, MadeUpBundle(fs, {}))],
         [b EXCEPT !.sender = Impostor(b.sender.id),
                   !.sig = sign(StrangerKey, ctx_to_sign(Impostor(b.sender.id), b.export))],
         [b EXCEPT !.sender = Impostor(b.sender.id),
                   !.export = more_fs,
                   !.sig = sign(StrangerKey, ctx_to_sign(Impostor(b.sender.id), more_fs))],
         [b EXCEPT !.sender = Impostor(b.sender.id),
                   !.export = twice_db,
                   !.sig = sign(StrangerKey, ctx_to_sign(Impostor(b.sender.id), twice_db))]}
        \cup {[b EXCEPT !.export.receiver = r] : r \in Ids \ {b.export.receiver}}
        \cup {[b EXCEPT !.sender = Impostor(b.sender.id),
                        !.export.receiver = r,
                        !.sig = sign(StrangerKey,
                                     ctx_to_sign(Impostor(b.sender.id),
                                                 [b.export EXCEPT !.receiver = r]))] :
                r \in Ids \ {b.export.receiver}}
        \cup {[b EXCEPT !.sender.id = i] : i \in Ids \ {b.sender.id}}

AnyShares == MadeShares \cup UNION {Forgeries(b) : b \in MadeShares}

\* the users whose unlock the backend feeds
Victims == {GOD_ID, 1}

\* the backend adds a share to the list it will deliver
Deliver ==
    \E s \in AnyShares :
        /\ Len(server) < MaxShares
        /\ server' = Append(server, s)
        /\ out' = [op |-> "deliver"]
        /\ UNCHANGED <<users, sent, protocol>>

\* a user unlocks with the list the backend delivers
UnlockAny ==
    \E id \in Victims :
        LET res == unlock_with_params(Private(id), Public(id), server, AllNodes) IN
        /\ users' = [users EXCEPT ![id] = res.user]
        /\ out' = [op |-> "unlock", _priv |-> Private(id), _pub |-> Public(id),
                   shares |-> server, res |-> res]
        /\ UNCHANGED <<server, sent, protocol>>

NextServer == Deliver \/ UnlockAny

SpecServer == Init /\ [][NextServer]_vars

----------------------------------------------------------------------------
(* A user who received some shares selects seeds for an invite             *)

Stranger == [id |-> 9, key |-> StrangerKey]

\* shares for user 1: what god exports to it, and shares of a stranger's
\* making with seeds of its own
SeedShares ==
    UNION {export_seeds_to_identity(God, fs_ids, db_ids, Public(1)) :
                fs_ids \in FsRequests, db_ids \in DbRequests}
    \cup {[sender |-> Stranger,
           export |-> [receiver |-> 1, fs |-> <<>>, db |-> sorted_keys(bundle.db)],
           payload |-> encrypt(Public(1), bundle),
           sig |-> sign(StrangerKey,
                        ctx_to_sign(Stranger, [receiver |-> 1, fs |-> <<>>,
                                               db |-> sorted_keys(bundle.db)]))] :
            bundle \in {MadeUpBundle({}, db_keys) :
                            db_keys \in {{ROOT_ID}, {id_for_table(1)}, {id_for_column(1, 1)}}}}

RECURSIVE ListsOf(_, _)
ListsOf(S, n) ==
    IF n = 0 THEN {<<>>}
    ELSE LET shorter == ListsOf(S, n - 1) IN
         shorter \cup {Append(l, x) : l \in shorter, x \in S}

\* user 1 unlocks with a list of such shares
Receive ==
    \E shares \in ListsOf(SeedShares, MaxShares) :
        LET res == unlock_with_params(Private(1), Public(1), shares, AllNodes) IN
        /\ out.op = "init"
        /\ users' = [users EXCEPT ![1] = res.user]
        /\ server' = shares
        /\ out' = [op |-> "unlock", _priv |-> Private(1), _pub |-> Public(1),
                   shares |-> shares, res |-> res]
        /\ UNCHANGED <<sent, protocol>>

\* a user issues a pin-based invite
Invite ==
    \E id \in Ids, email \in Emails, pin \in Pins, fs_ids \in FsRequests,
       db_ids \in DbRequests, receiver_id \in FreshIds :
        \* an invite leaves the User as it is: the same calls would follow it
        /\ out.op # "invite"
        /\ \E invite \in invite_with_seeds_for_email_and_pin(
                            users[id], email, pin, fs_ids, db_ids, receiver_id) :
            out' = [op |-> "invite", self |-> users[id], email |-> email, pin |-> pin,
                    fs_ids |-> fs_ids, db_ids |-> db_ids, invite |-> invite]
        /\ UNCHANGED <<users, server, sent, protocol>>

NextSeeds == Receive \/ Invite

SpecSeeds == Init /\ [][NextSeeds]_vars

----------------------------------------------------------------------------
(* Invite intents: a user starts an intent (sent), the backend keeps the   *)
(* pending intents (server), fills in the invitee's key and hands them     *)
(* back, as they are or altered, and the user finishes them                *)

\* a ref_src, as the words of its bytes
RefSrcs == {<<50>>}
IntentFs == {None, Some(<<>>), Some(<<DirId>>)}
IntentDb == {None, Some(<<>>), Some(<<Table(1)>>)}
Inviters == {GOD_ID, 1}

StartIntent ==
    \E id \in Inviters, ref_src \in RefSrcs, user_id \in FreshIds,
       fs_ids \in IntentFs, db_ids \in IntentDb :
        LET intent == start_invite_intent_with_seeds_for_ref_src(
                            users[id], ref_src, user_id, fs_ids, db_ids) IN
        /\ Len(sent) < MaxIntents
        /\ sent' = Append(sent, intent)
        /\ out' = [op |-> "start", self |-> users[id], intent |-> intent]
        /\ UNCHANGED <<users, server, protocol>>

\* the invitee registered: the backend fills in a public key, the invitee's
\* (whose id is the user_id of the intent) or another
Acked(int) == {[int EXCEPT !.receiver = Some(r)] : r \in {Public(int.user_id), Stranger}}

\* what the backend can turn an intent into without any user's private key
AlteredIntents(a) ==
    {[a EXCEPT !.fs_ids = f] : f \in IntentFs \ {a.fs_ids}}
    \cup {[a EXCEPT !.db_ids = d] : d \in IntentDb \ {a.db_ids}}
    \cup {[a EXCEPT !.ref_src = <<51>>],
          [a EXCEPT !.user_id = 8],
          [a EXCEPT !.sig = BadSig]}
    \cup {[a EXCEPT !.sender.id = i] : i \in Inviters \ {a.sender.id}}
    \cup {[a EXCEPT !.sender = Impostor(i),
                    !.fs_ids = None,
                    !.db_ids = None,
                    !.sig = sign(StrangerKey,
                                 InviteIntent_ctx_to_sign(i, a.ref_src, a.user_id,
                                                          None, None))] :
            i \in Inviters}
    \cup (IF a.fs_ids.some /\ a.fs_ids.val # <<>>
          THEN {[a EXCEPT !.ref_src = @ \o <<a.user_id>>,
                          !.user_id = Head(a.fs_ids.val),
                          !.fs_ids = Some(Tail(a.fs_ids.val))]}
          ELSE {})

AnyIntents ==
    UNION {{int} \cup Acked(int) \cup UNION {AlteredIntents(a) : a \in Acked(int)} :
            int \in Range(sent)}

\* the backend adds an intent to the list it will hand back
DeliverIntent ==
    \E int \in AnyIntents :
        /\ Len(server) < MaxShares
        /\ server' = Append(server, int)
        /\ out' = [op |-> "deliver"]
        /\ UNCHANGED <<users, sent, protocol>>

\* a user finishes the intents the backend hands back
FinishIntents ==
    \E id \in Inviters :
        \E res \in finish_invite_intents(users[id], server) :
            /\ out' = [op |-> "finish", self |-> users[id], intents |-> server,
                       res |-> res]
            /\ UNCHANGED <<users, server, sent, protocol>>

NextIntent == StartIntent \/ DeliverIntent \/ FinishIntents

SpecIntent == Init /\ [][NextIntent]_vars

----------------------------------------------------------------------------
(* Database entries: god grants seeds (server), users unlock, encrypt      *)
(* entries into the database (sent) and decrypt what they find there       *)

Salts == {1, 2}
Plaintexts == {"hi there"}

\* the root seed and the seed of table 1 for user 1, the seeds of column (1, 1)
\* and of table 2 for user 2, and a stranger's seed for column (1, 1)
CellShares ==
    UNION {export_seeds_to_identity(God, None, None, Public(1)),
           export_seeds_to_identity(God, Some(<<>>), Some(<<Table(1)>>), Public(1)),
           export_seeds_to_identity(God, Some(<<>>), Some(<<Column(1, 1)>>), Public(2)),
           export_seeds_to_identity(God, Some(<<>>), Some(<<Table(2)>>), Public(2))}
    \cup {s \in SeedShares : s.sender = Stranger /\ s.export.db = <<id_for_column(1, 1)>>}

Grant ==
    \E s \in CellShares :
        /\ Len(server) < MaxShares
        /\ sent = <<>>
        /\ server' = Append(server, s)
        /\ out' = [op |-> "deliver"]
        /\ UNCHANGED <<users, sent, protocol>>

\* a user unlocks with the shares granted to it, before any entry is written
UnlockGranted ==
    /\ sent = <<>>
    /\ Unlock

\* a user encrypts an entry and the database keeps it
EncryptEntry ==
    \E id \in Ids, table \in Tables, column \in Columns, pt \in Plaintexts, salt \in Salts :
        LET res == encrypt_db_entry(users[id], table, pt, column, salt) IN
        /\ Len(sent) < MaxCells
        /\ sent' = IF res.tag = "Ok"
                   THEN Append(sent, [table |-> table, column |-> column, pt |-> pt,
                                      by |-> users[id], encrypted |-> res.val])
                   ELSE sent
        /\ out' = [op |-> "encrypt", self |-> users[id], table |-> table,
                   column |-> column, pt |-> pt, salt |-> salt, res |-> res]
        /\ UNCHANGED <<users, server, protocol>>

\* what a kept entry may have turned into: itself, a string that is no
\* Encrypted, a damaged ciphertext, another salt
Stored(encrypted) ==
    {encrypted,
     [encrypted EXCEPT !.json = FALSE],
     [encrypted EXCEPT !.val.ct.key = JunkSeed]}
    \cup {[encrypted EXCEPT !.val.salt = salt] : salt \in Salts}

\* a user decrypts an entry of the database as an entry of a table and column
DecryptEntry ==
    \E id \in Ids, table \in Tables, column \in Columns, n \in 1..Len(sent) :
        \E encrypted \in Stored(sent[n].encrypted) :
            \* a decryption leaves everything as it is: the same calls would follow it
            /\ out.op # "decrypt"
            /\ out' = [op |-> "decrypt", self |-> users[id], table |-> table,
                       column |-> column, encrypted |-> encrypted, of |-> sent[n],
                       res |-> decrypt_db_entry(users[id], table, encrypted, column)]
            /\ UNCHANGED <<users, server, sent, protocol>>

NextCells == Grant \/ UnlockGranted \/ EncryptEntry \/ DecryptEntry

SpecCells == Init /\ [][NextCells]_vars

----------------------------------------------------------------------------
(* The Protocol of one client: it is opened over the file system the       *)
(* unlock gave, and then ls_cur_mut, cd_to_dir and go_back are called one  *)
(* after the other.  A call that awaits fetch_subtree stays at the await   *)
(* (pc = "fetch") until the network answers; out keeps the call, the cd    *)
(* and the file system it started from, and the fetches it made            *)

MaxFetches == 2

SubId == 6
FileId == 8

\* the file systems a client unlocks: with or without the root, the
\* directories dirty or not
Stores ==
    LET over(ids, dirty) ==
            [n \in ids |-> Node(n, IF n = ROOT_ID THEN NO_PARENT_ID ELSE ROOT_ID,
                                n # FileId, n \in dirty)]
    IN {over(ids, dirty) :
            ids \in {{}, {ROOT_ID}, {DirId}, {ROOT_ID, DirId}, {ROOT_ID, DirId, FileId}},
            dirty \in SUBSET {ROOT_ID, DirId}}

\* the ids a caller passes: directories, one known only after a fetch, a file
\* and one of no node
Targets == {ROOT_ID, DirId, SubId, FileId, 7}

\* what the backend holds under a directory
Remote(id) ==
    IF id = ROOT_ID THEN {Node(DirId, ROOT_ID, TRUE, TRUE), Node(FileId, ROOT_ID, FALSE, FALSE)}
    ELSE IF id = DirId THEN {Node(SubId, DirId, TRUE, TRUE)}
    ELSE {}

\* the answers of fetch_subtree and what add_or_update_subtree makes of them
Answers(id) ==
    {[ok |-> FALSE, nodes |-> {}, outcome |-> "none"]}
        \cup {[ok |-> TRUE, nodes |-> nodes, outcome |-> outcome] :
                    nodes \in {{}, Remote(id)},
                    outcome \in {"clean", "dirty", "failed"}}

Open ==
    /\ protocol.pc = "closed"
    /\ \E fs \in Stores :
          protocol' = [pc |-> "idle", cd |-> None, fs |-> fs, unwrap |-> FALSE]
    /\ out' = [op |-> "new"]
    /\ UNCHANGED <<users, server, sent>>

Called(op, id, r) ==
    /\ protocol' = [protocol EXCEPT !.pc = r.pc, !.cd = r.cd, !.unwrap = r.unwrap]
    /\ out' = [op |-> op, id |-> id, cd |-> protocol.cd, fs |-> protocol.fs,
               fetches |-> <<>>, res |-> r.res]
    /\ UNCHANGED <<users, server, sent>>

LsCurMut ==
    /\ protocol.pc = "idle"
    /\ Called("ls_cur_mut", NO_PARENT_ID, ls_cur_mut_impl(protocol.fs, protocol.cd, FALSE))

CdToDir ==
    /\ protocol.pc = "idle"
    /\ \E id \in Targets : Called("cd_to_dir", id, cd_to_dir(protocol.fs, id))

GoBack ==
    /\ protocol.pc = "idle"
    /\ Called("go_back", NO_PARENT_ID, go_back(protocol.fs, protocol.cd))

FetchReturns ==
    /\ protocol.pc = "fetch"
    /\ \E answer \in Answers(protocol.cd.val) :
          LET fetched == IF answer.ok THEN Ok(answer.nodes) ELSE Err("NoNetwork")
              r == after_fetch(protocol.fs, protocol.cd.val, protocol.unwrap,
                               fetched, answer.outcome)
          IN /\ r.pc = "fetch" => Len(out.fetches) + 1 < MaxFetches
             /\ protocol' = [pc |-> r.pc, cd |-> r.cd, fs |-> r.fs, unwrap |-> r.unwrap]
             /\ out' = [out EXCEPT !.fetches = Append(@, [id |-> protocol.cd.val,
                                                           ok |-> answer.ok,
                                                           nodes |-> answer.nodes,
                                                           outcome |-> answer.outcome]),
                                   !.res = r.res]
    /\ UNCHANGED <<users, server, sent>>

NextProtocol == Open \/ LsCurMut \/ CdToDir \/ GoBack \/ FetchReturns

SpecProtocol == Init /\ [][NextProtocol]_vars

----------------------------------------------------------------------------
(* The Protocol over a corrupted local store: the parent_ids of two        *)
(* directories point at each other.  A call whose breadcrumb loop never    *)
(* ends stays in it (pc = "hung")                                          *)

CorruptedStores ==
    LET over(ids, dirty) ==
            [n \in ids |-> Node(n, IF n = ROOT_ID THEN NO_PARENT_ID
                                    ELSE IF n = DirId THEN SubId
                                    ELSE IF n = SubId THEN DirId
                                    ELSE DirId,
                                n # FileId, n \in dirty)]
    IN {over(ids, dirty) :
            ids \in {{DirId, SubId}, {ROOT_ID, DirId, SubId}, {ROOT_ID, DirId, SubId, FileId}},
            dirty \in SUBSET {DirId, SubId}}

OpenCorrupted ==
    /\ protocol.pc = "closed"
    /\ \E fs \in CorruptedStores :
          protocol' = [pc |-> "idle", cd |-> None, fs |-> fs, unwrap |-> FALSE]
    /\ out' = [op |-> "new"]
    /\ UNCHANGED <<users, server, sent>>

NextCorrupted == OpenCorrupted \/ LsCurMut \/ CdToDir \/ GoBack \/ FetchReturns

SpecCorrupted == Init /\ [][NextCorrupted]_vars

----------------------------------------------------------------------------
(* Claims about unlock_with_params, checked under SpecServer               *)

\* the k-th smallest element of a finite set of naturals
Nth(S, k) == CHOOSE x \in S : Cardinality({y \in S : y <= x}) = k

\* list picks from shares exactly the entries at the positions in at, in order,
\* each turned into what(share)
PicksInOrder(list, shares, at, what(_)) ==
    /\ Len(list) = Cardinality(at)
    /\ \A k \in 1..Len(list) : list[k] = what(shares[Nth(at, k)])

SigVerifies(s) == verify(s.sender, s.sig, ctx_to_sign(s.sender, s.export))
Decrypts(s, _priv) == s.payload.to = _priv
Parses(s) == s.payload.pt.json
BundleOf(s) == s.payload.pt.val
IsListOf(l, S) == Range(l) = S /\ Len(l) = Cardinality(S)

\* all the conditions of C1 on one share
Survives(s, _priv, _pub) ==
    /\ s.export.receiver = _pub.id
    /\ Decrypts(s, _priv)
    /\ Parses(s)
    /\ SigVerifies(s)
    /\ IsListOf(s.export.fs, DOMAIN BundleOf(s).fs)
    /\ IsListOf(s.export.db, DOMAIN BundleOf(s).db)

SurvivorsAt(shares, _priv, _pub) ==
    {i \in 1..Len(shares) : Survives(shares[i], _priv, _pub)}

\* C1: the imports of an unlock are, in the order of the share list, the
\* (sender, decrypted bundle) of exactly the shares that are addressed to the
\* user, decrypt, parse, carry a valid signature and declare exactly the keys of
\* their bundle; every other share yields no import.
C1_ImportsAreTheSurvivors ==
    out.op = "unlock" =>
        PicksInOrder(out.res.user.imports, out.shares,
                     SurvivorsAt(out.shares, out._priv, out._pub),
                     LAMBDA s : [sender |-> s.sender, bundle |-> BundleOf(s)])

\* an unlock that kept one share and dropped a share whose signature is valid
\* but whose bundle holds a key the export does not declare
C1_Witness ==
    /\ out.op = "unlock"
    /\ Len(out.res.user.imports) = 1
    /\ \E i \in 1..Len(out.shares) :
        LET s == out.shares[i] IN
        /\ s.export.receiver = out._pub.id
        /\ Decrypts(s, out._priv) /\ Parses(s) /\ SigVerifies(s)
        /\ DOMAIN BundleOf(s).db # Range(s.export.db)

Forged(s) == ~verify(s.sender, s.sig, ctx_to_sign(s.sender, s.export))

\* C2: a forged share appended to a list of shares changes nothing: the User
\* unlocked from the longer list is the User unlocked from the list without it.
C2_ForgedShareIsIgnored ==
    (out.op = "unlock" /\ out.shares # <<>> /\ Forged(out.shares[Len(out.shares)])) =>
        out.res.user =
            unlock_with_params(out._priv, out._pub,
                               SubSeq(out.shares, 1, Len(out.shares) - 1), AllNodes).user

\* an unlock of a share that survives, followed by a forged share that names
\* the user as its sender and as its receiver's peer
C2_Witness ==
    /\ out.op = "unlock"
    /\ Len(out.shares) = 2
    /\ Forged(out.shares[2])
    /\ out.shares[2].sender.id = out._pub.id
    /\ Len(out.res.user.imports) = 1

\* C3: unlock returns Ok(User) for every list of shares; the User is a pending
\* signup exactly when it is not god and no share survived, and never when it
\* is god or holds an import.
C3_UnlockNeverFails ==
    out.op = "unlock" =>
        /\ out.res.tag = "Ok"
        /\ is_pending_signup(out.res.user) <=>
                (out._pub.id # GOD_ID /\ SurvivorsAt(out.shares, out._priv, out._pub) = {})
        /\ (out._pub.id = GOD_ID \/ out.res.user.imports # <<>>) =>
                ~is_pending_signup(out.res.user)

\* a user that is not god unlocks with two shares, none of which survives
C3_Witness ==
    /\ out.op = "unlock"
    /\ out._pub.id # GOD_ID
    /\ Len(out.shares) = 2
    /\ out.res.user.imports = <<>>
    /\ is_pending_signup(out.res.user)
    /\ \E i \in 1..2 : ~Parses(out.shares[i])
    /\ \E i \in 1..2 : Forged(out.shares[i])

\* C9: the exports of an unlock are, in the order of the share list, the
\* exports of exactly the shares whose sender id is the user's id and whose
\* signature verifies; the payload plays no role.
C9_ExportsAreTheOwnSignedShares ==
    out.op = "unlock" =>
        PicksInOrder(out.res.user.exports, out.shares,
                     {i \in 1..Len(out.shares) :
                        /\ out.shares[i].sender.id = out._pub.id
                        /\ SigVerifies(out.shares[i])},
                     LAMBDA s : s.export)

\* an unlock that kept the export of a share it cannot decrypt and dropped a
\* share that names the user as sender under an invalid signature
C9_Witness ==
    /\ out.op = "unlock"
    /\ Len(out.res.user.exports) = 1
    /\ \E i, j \in 1..Len(out.shares) :
        /\ out.shares[i].sender.id = out._pub.id
        /\ SigVerifies(out.shares[i])
        /\ ~Decrypts(out.shares[i], out._priv)
        /\ out.shares[j].sender.id = out._pub.id
        /\ Forged(out.shares[j])

\* C10: a god user has no imports, whatever the backend delivers.
C10_GodHasNoImports ==
    \A id \in Ids : is_god(users[id]) => users[id].imports = <<>>

\* the lists with the elements of l in another order
Reordered(l) == {[i \in 1..Len(l) |-> l[p[i]]] : p \in Perms(1..Len(l))}

\* C14: the order of the id lists of an Export is not part of what is signed:
\* with its fs and db lists in any other order a share has the same hash and
\* the same bytes to sign, and unlock returns the same imports.
C14_OrderOfListsIsNotSigned ==
    out.op = "unlock" =>
        \A i \in 1..Len(out.shares) :
            LET s == out.shares[i] IN
            \A f \in Reordered(s.export.fs), d \in Reordered(s.export.db) :
                LET e == [s.export EXCEPT !.fs = f, !.db = d]
                    shares == [out.shares EXCEPT ![i] = [s EXCEPT !.export = e]]
                IN  /\ hash(e) = hash(s.export)
                    /\ ctx_to_sign(s.sender, e) = ctx_to_sign(s.sender, s.export)
                    /\ SigVerifies(s) <=> verify(s.sender, s.sig, ctx_to_sign(s.sender, e))
                    /\ unlock_with_params(out._priv, out._pub, shares, AllNodes).user.imports
                            = out.res.user.imports

\* a share with two db ids in descending order became an import
C14_Witness ==
    /\ out.op = "unlock"
    /\ \E i \in 1..Len(out.shares) :
        /\ Survives(out.shares[i], out._priv, out._pub)
        /\ Len(out.shares[i].export.db) = 2
        /\ out.shares[i].export.db[1] > out.shares[i].export.db[2]
    /\ Len(out.res.user.imports) = 1

----------------------------------------------------------------------------
(* Claims about a chain of shares, checked under Spec                      *)

\* C7: a share made by export_seeds_to_identity and delivered as it is becomes
\* exactly one import of its receiver, with the sender's public identity and the
\* bundle the sender's seeds_for_ids selected, an empty bundle included.
C7_ExportThenUnlockRoundTrip ==
    out.op = "unlock" =>
        PicksInOrder(out.res.user.imports, sent,
                     {i \in 1..Len(server) : server[i].export.receiver = out._pub.id},
                     LAMBDA e : [sender |-> e.sender, bundle |-> e.bundle])

\* an unlock with two shares, one of an empty bundle and one of two db seeds
C7_Witness ==
    /\ out.op = "unlock"
    /\ Len(out.res.user.imports) = 2
    /\ \E i, j \in 1..2 :
        /\ out.res.user.imports[i].bundle = NewBundle
        /\ Cardinality(DOMAIN out.res.user.imports[j].bundle.db) = 2

IndexOf(id) == CHOOSE idx \in Indices : as_id(idx) = id
IndexIds == {as_id(idx) : idx \in Indices}

\* the seed god's db seed gives for an id
SeedFromGod(id) ==
    LET root == db_seed(Private(GOD_ID)) IN
    IF id = ROOT_ID THEN root
    ELSE IF IndexOf(id).kind = "Table"
    THEN derive_table_seed_from_root(root, IndexOf(id).table)
    ELSE derive_column_seed_from_root(root, IndexOf(id).table, IndexOf(id).column)

\* the db seeds a user holds: its imports, and for god the own db seed
HeldIds(self) ==
    IF is_god(self) THEN {ROOT_ID}
    ELSE UNION {DOMAIN self.imports[n].bundle.db : n \in 1..Len(self.imports)}
SeedsHeld(self, id) ==
    IF is_god(self) THEN {db_seed(self.identity._priv)}
    ELSE {self.imports[n].bundle.db[id] :
            n \in {n \in 1..Len(self.imports) : id \in DOMAIN self.imports[n].bundle.db}}

\* self holds seed under id, or holds a root or table seed that gives it
HoldsOrDerives(self, id, seed) ==
    \/ id \in HeldIds(self) /\ seed \in SeedsHeld(self, id)
    \/ /\ id \in IndexIds
       /\ ROOT_ID \in HeldIds(self)
       /\ \E root \in SeedsHeld(self, ROOT_ID) :
            seed = IF IndexOf(id).kind = "Table"
                   THEN derive_table_seed_from_root(root, IndexOf(id).table)
                   ELSE derive_column_seed_from_root(root, IndexOf(id).table,
                                                     IndexOf(id).column)
    \/ /\ id \in IndexIds
       /\ IndexOf(id).kind = "Column"
       /\ id_for_table(IndexOf(id).table) \in HeldIds(self)
       /\ \E table_seed \in SeedsHeld(self, id_for_table(IndexOf(id).table)) :
            seed = derive_column_seed_from_table(table_seed, IndexOf(id).column)

\* C6: along a chain of shares that starts at god, every db seed a user holds
\* under an id is one its inviter holds under that id or derives from a root or
\* table seed it holds, and it is the seed god's db seed gives for that id.
C6_AuthorityNeverGrows ==
    \A id \in Ids : \A n \in 1..Len(users[id].imports) :
        LET im == users[id].imports[n] IN
        \A k \in DOMAIN im.bundle.db :
            /\ k \in IndexIds \cup {ROOT_ID}
            /\ HoldsOrDerives(users[im.sender.id], k, im.bundle.db[k])
            /\ im.bundle.db[k] = SeedFromGod(k)

\* user 2 holds a column seed that user 1, who holds only the table seed,
\* derived for it
C6_Witness ==
    /\ HeldIds(users[1]) = {id_for_table(1)}
    /\ \E n \in 1..Len(users[2].imports) :
        /\ users[2].imports[n].sender.id = 1
        /\ id_for_column(1, 1) \in DOMAIN users[2].imports[n].bundle.db

----------------------------------------------------------------------------
(* Claims about seeds_for_ids and invites, checked under SpecSeeds         *)

InviteBundle == out.invite.payload.pt.val
\* the indices whose seeds the inviting user holds, and the indices it asks for
HeldIndices == {idx \in Indices : as_id(idx) \in HeldIds(out.self)}
AskedIndices == Range(out.db_ids.val)

\* a user who is not god and holds the seeds of a proper subset of the
\* indices invites with a list that includes them
AsksForMoreThanHeld ==
    /\ out.op = "invite"
    /\ ~is_god(out.self)
    /\ out.db_ids.some
    /\ HeldIndices # Indices
    /\ HeldIndices \subseteq AskedIndices

\* C4 as the spec states it: the db keys of the bundle are exactly the indices held and asked for.
C4_BundleIsHeldAndAsked ==
    AsksForMoreThanHeld => DOMAIN InviteBundle.db = {as_id(idx) : idx \in HeldIndices \cap AskedIndices}

\* C4, amended: the db keys of the bundle are exactly the asked indices that are
\* held, or are a column of a held table, or any asked index when a root seed
\* is held.
C4_BundleIsDerivableAndAsked ==
    AsksForMoreThanHeld =>
        DOMAIN InviteBundle.db =
            {as_id(idx) : idx \in {i \in AskedIndices :
                                    \/ i \in HeldIndices
                                    \/ i.kind = "Column" /\ Table(i.table) \in HeldIndices
                                    \/ ROOT_ID \in HeldIds(out.self)}}

\* the holder of the seed of table 1 alone is asked for the table and its column
C4_Witness ==
    /\ AsksForMoreThanHeld
    /\ HeldIndices = {Table(1)}
    /\ AskedIndices = {Table(1), Column(1, 1)}
    /\ DOMAIN InviteBundle.db = {id_for_table(1), id_for_column(1, 1)}

\* C5: a user who is not god puts a requested index in bundle.db if and only if
\* it holds a seed for the index, for its table (a column), or for ROOT_ID; the
\* value is the held seed, else the seed derived from the table seed, else the
\* seed derived from the root seed; nothing that was not requested is in
\* bundle.db.
C5_RequestedIndexByIndex ==
    (out.op = "invite" /\ ~is_god(out.self) /\ out.db_ids.some) =>
        LET held == HeldIds(out.self)
            db == InviteBundle.db
        IN
        /\ DOMAIN db \subseteq {as_id(idx) : idx \in AskedIndices}
        /\ \A idx \in AskedIndices :
            LET id == as_id(idx)
                tid == id_for_table(idx.table)
            IN
            /\ id \in DOMAIN db <=>
                    \/ id \in held
                    \/ idx.kind = "Column" /\ tid \in held
                    \/ ROOT_ID \in held
            /\ id \in DOMAIN db =>
                    IF id \in held THEN db[id] \in SeedsHeld(out.self, id)
                    ELSE IF idx.kind = "Column" /\ tid \in held
                    THEN \E seed \in SeedsHeld(out.self, tid) :
                            db[id] = derive_column_seed_from_table(seed, idx.column)
                    ELSE \E seed \in SeedsHeld(out.self, ROOT_ID) :
                            db[id] = IF idx.kind = "Table"
                                     THEN derive_table_seed_from_root(seed, idx.table)
                                     ELSE derive_column_seed_from_root(seed, idx.table,
                                                                       idx.column)

\* a user who holds a root seed and another seed for table 1 is asked for the
\* column and for table 2: the column comes from the table seed, table 2 from
\* the root seed
C5_Witness ==
    /\ out.op = "invite" /\ ~is_god(out.self) /\ out.db_ids.some
    /\ HeldIds(out.self) = {ROOT_ID, id_for_table(1)}
    /\ AskedIndices = {Column(1, 1), Table(2)}
    /\ \A root \in SeedsHeld(out.self, ROOT_ID) :
            InviteBundle.db[id_for_column(1, 1)] # derive_column_seed_from_root(root, 1, 1)
    /\ id_for_table(2) \in DOMAIN InviteBundle.db

\* C8: an Invite is a signed manifest of its sealed bundle: export.fs and
\* export.db list exactly the keys of the bundle locked under the pin,
\* export.receiver is the generated user_id, sender is the caller, ref_src the
\* email, and sig verifies over ctx_to_sign(sender, export) under the caller's
\* key.
C8_InviteIsWellFormed ==
    out.op = "invite" =>
        LET invite == out.invite IN
        /\ invite.payload.pin = out.pin
        /\ IsListOf(invite.export.fs, DOMAIN InviteBundle.fs)
        /\ IsListOf(invite.export.db, DOMAIN InviteBundle.db)
        /\ invite.user_id \in FreshIds
        /\ invite.export.receiver = invite.user_id
        /\ invite.sender = out.self.identity._pub
        /\ invite.ref_src = out.email
        /\ invite.sig.key = out.self.identity._priv
        /\ verify(out.self.identity._pub, invite.sig,
                  ctx_to_sign(invite.sender, invite.export))

\* an invite of a user who is not god, for a bundle of one fs and two db seeds
C8_Witness ==
    /\ out.op = "invite"
    /\ ~is_god(out.self)
    /\ Cardinality(DOMAIN InviteBundle.fs) = 1
    /\ Cardinality(DOMAIN InviteBundle.db) = 2

\* m is the union of the maps ms[1], ms[2], ..: it has the keys of all of them,
\* and under a key the value of the last map that has the key
IsUnionOf(m, ms) ==
    /\ DOMAIN m = UNION {DOMAIN ms[n] : n \in 1..Len(ms)}
    /\ \A k \in DOMAIN m : \E n \in 1..Len(ms) :
        /\ k \in DOMAIN ms[n]
        /\ m[k] = ms[n][k]
        /\ \A later \in (n + 1)..Len(ms) : k \notin DOMAIN ms[later]

\* C11: with an absent id list seeds_for_ids shares everything held, for fs and
\* for db on their own: god's map is ROOT_ID with its own fs or db seed, and
\* the map of a user who is not god is the union of the maps of its imports.
C11_AbsentListSharesAll ==
    out.op = "invite" =>
        LET imports == out.self.imports
            _priv == out.self.identity._priv
        IN
        /\ ~out.fs_ids.some =>
            IF is_god(out.self)
            THEN /\ DOMAIN InviteBundle.fs = {ROOT_ID}
                 /\ InviteBundle.fs[ROOT_ID] = fs_seed(_priv)
            ELSE IsUnionOf(InviteBundle.fs,
                           [n \in 1..Len(imports) |-> imports[n].bundle.fs])
        /\ ~out.db_ids.some =>
            IF is_god(out.self)
            THEN /\ DOMAIN InviteBundle.db = {ROOT_ID}
                 /\ InviteBundle.db[ROOT_ID] = db_seed(_priv)
            ELSE IsUnionOf(InviteBundle.db,
                           [n \in 1..Len(imports) |-> imports[n].bundle.db])

\* a user with two imports that hold different fs ids and different db ids
\* shares all of them
C11_Witness ==
    /\ out.op = "invite"
    /\ ~is_god(out.self)
    /\ ~out.fs_ids.some
    /\ ~out.db_ids.some
    /\ Len(out.self.imports) = 2
    /\ DOMAIN out.self.imports[1].bundle.db # DOMAIN out.self.imports[2].bundle.db
    /\ Cardinality(DOMAIN InviteBundle.fs) = 2
    /\ Cardinality(DOMAIN InviteBundle.db) = 3

----------------------------------------------------------------------------
(* Claims about invite intents, checked under SpecIntent                   *)

IntentSigVerifies(int) ==
    verify(int.sender, int.sig,
           InviteIntent_ctx_to_sign(int.sender.id, int.ref_src, int.user_id,
                                    int.fs_ids, int.db_ids))

\* the positions of the intents that pass the three tests of C12
PassingAt(self, intents) ==
    {i \in 1..Len(intents) :
        /\ intents[i].receiver.some
        /\ intents[i].sender.id = self.identity._pub.id
        /\ IntentSigVerifies(intents[i])}

\* C12: finish_invite_intents returns, in the order of the input, one result
\* for each intent that has a receiver, the caller's id as sender id and a
\* verifying signature: the intent's ref_src with a share that
\* export_seeds_to_identity makes of the intent's ids for its receiver; every
\* other intent gives nothing.
C12_FinishesThePassingIntents ==
    out.op = "finish" =>
        LET at == PassingAt(out.self, out.intents) IN
        /\ Len(out.res) = Cardinality(at)
        /\ \A k \in 1..Len(out.res) :
            LET int == out.intents[Nth(at, k)] IN
            /\ out.res[k].ref_src = int.ref_src
            /\ out.res[k].share \in export_seeds_to_identity(
                                        out.self, int.fs_ids, int.db_ids, int.receiver.val)

\* of two intents handed back the first, without a receiver, is skipped and the
\* second gives a share of god's seeds for its receiver
C12_Witness ==
    /\ out.op = "finish"
    /\ is_god(out.self)
    /\ Len(out.intents) = 2
    /\ ~out.intents[1].receiver.some
    /\ Len(out.res) = 1
    /\ out.res[1].share.export.receiver = out.intents[2].receiver.val.id
    /\ out.res[1].share.export.fs # <<>>

\* the intent is one the user started, whoever the receiver is
AsStarted(int) ==
    \E o \in Range(sent) :
        /\ o.sender = int.sender
        /\ o.ref_src = int.ref_src
        /\ o.user_id = int.user_id
        /\ o.fs_ids = int.fs_ids
        /\ o.db_ids = int.db_ids

\* C13: an intent whose ref_src, user_id, fs_ids or db_ids differ from what the
\* user signed at the start is skipped: finish_invite_intents returns what it
\* returns for the list without the altered intents.
C13_AlteredIntentIsSkipped ==
    out.op = "finish" =>
        out.res \in finish_invite_intents(out.self, SelectSeq(out.intents, AsStarted))

----------------------------------------------------------------------------
(* Claims about database entries, checked under SpecCells                  *)

\* the seeds self holds for (table, column): of the column, the table, the root
SeedsFor(self, table, column) ==
    UNION {SeedsHeld(self, id) :
            id \in {id_for_column(table, column), id_for_table(table), ROOT_ID}
                    \cap HeldIds(self)}

\* self is god or holds a seed for (table, column)
HasAccess(self, table, column) ==
    is_god(self) \/ SeedsFor(self, table, column) # {}

\* every db seed self holds is the seed god's db seed gives for its id
HoldsGodsSeeds(self) ==
    \A n \in 1..Len(self.imports) : \A k \in DOMAIN self.imports[n].bundle.db :
        /\ k \in IndexIds \cup {ROOT_ID}
        /\ self.imports[n].bundle.db[k] = SeedFromGod(k)

\* C15: an entry that a user with access encrypted is decrypted to its
\* plaintext by every user with access to the same table and column, when the
\* seeds of both derive from god's db seed.
C15_EntryRoundTrip ==
    (/\ out.op = "decrypt"
     /\ out.encrypted = out.of.encrypted
     /\ out.table = out.of.table
     /\ out.column = out.of.column
     /\ HasAccess(out.self, out.table, out.column)
     /\ HoldsGodsSeeds(out.self)
     /\ HoldsGodsSeeds(out.of.by))
        => out.res = Ok(out.of.pt)

\* user 2, who holds the seed of column (1, 1), decrypts what user 1, who holds
\* the seed of table 1, encrypted
C15_Witness ==
    /\ out.op = "decrypt"
    /\ out.encrypted = out.of.encrypted
    /\ out.table = 1
    /\ out.of.table = 1
    /\ HeldIds(out.of.by) = {id_for_table(1)}
    /\ HeldIds(out.self) = {id_for_column(1, 1)}
    /\ HoldsGodsSeeds(out.self)
    /\ HoldsGodsSeeds(out.of.by)
    /\ out.res = Ok(out.of.pt)

\* C16: decrypt_db_entry fails with BadJson when the input does not parse,
\* whatever the caller holds; with NoAccess when it parses and the caller is
\* not god and holds no seed of the column, the table or the root; with BadKey
\* when a seed was found and the ciphertext does not decrypt under it.
\* encrypt_db_entry fails only without access, with NoAccess.  Neither
\* changes the User.
C16_EntryFailures ==
    /\ out.op = "decrypt" =>
        /\ users[out.self.identity._pub.id] = out.self
        /\ IF ~out.encrypted.json THEN out.res = Err("BadJson")
           ELSE IF ~HasAccess(out.self, out.table, out.column)
           THEN out.res = Err("NoAccess")
           ELSE \/ out.res = Ok(out.encrypted.val.ct.pt)
                \/ out.res = Err("BadKey")
        /\ (/\ out.encrypted.json
            /\ HasAccess(out.self, out.table, out.column)
            /\ \/ out.encrypted.val.ct.key = JunkSeed
               \/ out.table # out.of.table
               \/ out.encrypted.val.salt # out.of.encrypted.val.salt)
                => out.res = Err("BadKey")
    /\ out.op = "encrypt" =>
        /\ users[out.self.identity._pub.id] = out.self
        /\ IF HasAccess(out.self, out.table, out.column)
           THEN /\ out.res.tag = "Ok"
                /\ out.res.val.json
                /\ out.res.val.val.salt = out.salt
                /\ out.res.val.val.ct.pt = out.pt
           ELSE out.res = Err("NoAccess")

\* a user without access is given a string that does not parse
C16_Witness ==
    /\ out.op = "decrypt"
    /\ ~out.encrypted.json
    /\ ~HasAccess(out.self, out.table, out.column)
    /\ out.res = Err("BadJson")

----------------------------------------------------------------------------
(* Claims about the Protocol, checked under SpecProtocol                   *)

\* the last call is ls_cur_mut and it started with cd at a directory of the
\* local file system
LsOfDir ==
    /\ out.op = "ls_cur_mut"
    /\ out.cd.some
    /\ out.cd.val \in DOMAIN out.fs
    /\ out.fs[out.cd.val].dir

\* the first fetch of the last call was answered and the update of the file
\* system left the directory clean
RefreshedOnce ==
    /\ Len(out.fetches) >= 1
    /\ out.fetches[1].ok
    /\ out.fetches[1].outcome = "clean"

FailedRefresh ==
    /\ out.op = "ls_cur_mut"
    /\ out.fetches # <<>>
    /\ LET last == out.fetches[Len(out.fetches)] IN ~last.ok \/ last.outcome = "failed"

\* C18: an ls_cur_mut whose refresh failed has returned an error, the error
\* of the network as it is or NotFound for the failed update, without a call
\* of add_or_update_subtree after a failed fetch; the file system and cd are
\* those the call started from, the directory is dirty still and the next
\* ls_cur_mut fetches again
C18_FailedRefreshLeavesNoTrace ==
    FailedRefresh =>
        LET last == out.fetches[Len(out.fetches)] IN
        /\ protocol.pc = "idle"
        /\ out.res = (IF last.ok THEN Err("NotFound") ELSE Err("NoNetwork"))
        /\ ~last.ok => last.outcome = "none"
        /\ protocol.fs = out.fs
        /\ protocol.cd = out.cd
        /\ protocol.fs[last.id].dirty
        /\ ls_cur_mut_impl(protocol.fs, protocol.cd, FALSE).pc = "fetch"

\* the last refresh cycle of the last call applied the fetched nodes and the
\* directory was dirty still
StillDirty ==
    /\ out.op \in {"ls_cur_mut", "cd_to_dir", "go_back"}
    /\ out.fetches # <<>>
    /\ LET last == out.fetches[Len(out.fetches)] IN last.ok /\ last.outcome = "dirty"

\* C19: a call whose refresh cycle left the directory dirty has made that one
\* fetch only and has ended with NotFound; it does not fetch again
C19_StillDirtyEndsWithNotFound ==
    StillDirty =>
        /\ Len(out.fetches) = 1
        /\ protocol.pc = "idle"
        /\ out.res = Err("NotFound")

\* the last call is cd_to_dir and it has returned
CdToDirReturned == out.op = "cd_to_dir" /\ protocol.pc = "idle"

\* view is the listing of the directory id of the file system fs: its
\* children, its name and the path of its ancestors from the top
IsListingOf(view, fs, id) ==
    LET b == view.breadcrumbs IN
    /\ view.items = {n \in DOMAIN fs : fs[n].parent_id = id}
    /\ view.name = fs[id].name
    /\ (b = <<>>) = (fs[id].parent_id = NO_PARENT_ID)
    /\ b # <<>> =>
          /\ b[Len(b)] = fs[id].parent_id
          /\ \A i \in 2..Len(b) : b[i] \in DOMAIN fs /\ b[i - 1] = fs[b[i]].parent_id
          /\ b[1] \in DOMAIN fs => fs[b[1]].parent_id = NO_PARENT_ID

\* C20 as stated: for every id, after cd_to_dir(id) has returned cd is
\* Some(id), and the DirView of an Ok is the listing of the node id
C20_CdToDirSetsCd ==
    CdToDirReturned =>
        /\ protocol.cd = Some(out.id)
        /\ out.res.tag = "Ok" =>
              /\ out.id \in DOMAIN protocol.fs
              /\ IsListingOf(out.res.val, protocol.fs, out.id)

\* C20 amended: for every id that resolves to a node of the local file
\* system, cd is Some(id) from the call on, and the DirView of an Ok is the
\* listing of the node id; for an id that resolves to no node the call falls
\* back to the root and cd is not Some(id) after it returned
C20_CdToDirOfNodeSetsCd ==
    out.op = "cd_to_dir" =>
        IF out.id \in DOMAIN out.fs
        THEN /\ protocol.cd = Some(out.id)
             /\ CdToDirReturned /\ out.res.tag = "Ok" =>
                   IsListingOf(out.res.val, protocol.fs, out.id)
        ELSE CdToDirReturned => protocol.cd # Some(out.id)

C20_Witness ==
    /\ CdToDirReturned
    /\ out.id \in DOMAIN out.fs
    /\ out.cd # Some(out.id)
    /\ protocol.cd = Some(out.id)
    /\ out.res.tag = "Ok"
    /\ out.res.val.items # {}
    /\ out.res.val.breadcrumbs # <<>>

\* the last call is a go_back or an ls_cur_mut that left the tree: cd did not
\* resolve to a node when it started, or it is a go_back from a node whose
\* parent_id is not a node (the root node, or a node with a missing parent)
LeftTheTree ==
    /\ out.op \in {"go_back", "ls_cur_mut"}
    /\ \/ ~out.cd.some
       \/ out.cd.val \notin DOMAIN out.fs
       \/ out.op = "go_back" /\ out.fs[out.cd.val].parent_id \notin DOMAIN out.fs

\* C21 as stated: after a go_back or an ls_cur_mut that left the tree has
\* returned, cd is None
C21_LeavingTheTreeUnsetsCd ==
    LeftTheTree /\ protocol.pc = "idle" => protocol.cd = None

\* C21 amended: from a go_back or an ls_cur_mut that left the tree on, cd is
\* Some(ROOT_ID) when the root node is in the local file system and None when
\* it is not, and the DirView of an Ok is the listing of the root node, or of
\* the top nodes under the name "~" when there is no root node
C21_LeavingTheTreeGoesToRoot ==
    LeftTheTree =>
        IF ROOT_ID \in DOMAIN out.fs
        THEN /\ protocol.cd = Some(ROOT_ID)
             /\ protocol.pc = "idle" /\ out.res.tag = "Ok" =>
                   IsListingOf(out.res.val, protocol.fs, ROOT_ID)
        ELSE /\ protocol.cd = None
             /\ protocol.pc = "idle"
             /\ protocol.fs = out.fs
             /\ out.res = Ok([items |-> {n \in DOMAIN out.fs :
                                            out.fs[n].parent_id \notin DOMAIN out.fs},
                              name |-> "~", breadcrumbs |-> <<>>])

C21_Witness ==
    /\ out.op = "go_back"
    /\ out.cd = Some(ROOT_ID)
    /\ LeftTheTree
    /\ protocol.pc = "idle"
    /\ protocol.cd = Some(ROOT_ID)
    /\ out.res.tag = "Ok"
    /\ out.res.val.items # {}

\* the last call is a go_back from a node whose parent is a clean directory
\* of the local file system
WentBackToCleanDir ==
    /\ out.op = "go_back"
    /\ out.cd.some
    /\ out.cd.val \in DOMAIN out.fs
    /\ out.fs[out.cd.val].parent_id \in DOMAIN out.fs
    /\ out.fs[out.fs[out.cd.val].parent_id].dir
    /\ ~out.fs[out.fs[out.cd.val].parent_id].dirty

----------------------------------------------------------------------------
(* Claims about the Protocol over a corrupted store, checked under         *)
(* SpecCorrupted                                                           *)

\* a call has come to a clean node of the local file system: the branch with
\* the breadcrumb walk
AtCleanNode ==
    /\ out.op \in {"ls_cur_mut", "cd_to_dir", "go_back"}
    /\ protocol.cd.some
    /\ protocol.cd.val \in DOMAIN protocol.fs
    /\ ~protocol.fs[protocol.cd.val].dirty

\* C23: a call that has come to a clean node has returned, with a DirView of
\* at most as many breadcrumbs as the file system has nodes or with
\* BadOperation for a file, also when the parent_ids form a cycle
C23_BreadcrumbWalkEnds ==
    AtCleanNode =>
        /\ protocol.pc = "idle"
        /\ out.res.tag = "Ok" =>
              Len(out.res.val.breadcrumbs) <= Cardinality(DOMAIN protocol.fs) + 1

----------------------------------------------------------------------------
(* Claims about what a signature binds, checked under SpecServer           *)

\* C24: every import an unlock retains from a sender with a user's own keys
\* carries a bundle that sender packaged for the unlocking user: under every
\* key the seed the sender put there
C24_ImportedSeedsAreTheSigners ==
    out.op = "unlock" =>
        \A i \in 1..Len(out.res.user.imports) :
            LET imp == out.res.user.imports[i] IN
            imp.sender = Public(imp.sender.id) =>
                \E made \in MadeShares :
                    /\ made.sender = imp.sender
                    /\ made.export.receiver = out._pub.id
                    /\ BundleOf(made) = imp.bundle

----------------------------------------------------------------------------
(* Claims about the receiver of an intent, checked under SpecIntent        *)

\* C25: every share finish_invite_intents returns is for a receiver whose id
\* is the user_id of the intent it was made for
C25_ShareIsForTheSignedInvitee ==
    out.op = "finish" =>
        LET at == PassingAt(out.self, out.intents) IN
        \A k \in 1..Len(out.res) :
            /\ k <= Cardinality(at)
            /\ out.res[k].share.export.receiver = out.intents[Nth(at, k)].user_id

----------------------------------------------------------------------------
(* Claims about the keys a share is verified under, checked under          *)
(* SpecServer                                                              *)

\* C26: every export an unlock retains is the export of a delivered share
\* whose sender is the user's own public identity, id and key, and whose
\* signature verifies
C26_ExportsAreSignedByTheUser ==
    out.op = "unlock" =>
        \A k \in 1..Len(out.res.user.exports) :
            \E i \in 1..Len(out.shares) :
                /\ out.shares[i].export = out.res.user.exports[k]
                /\ out.shares[i].sender = out._pub
                /\ SigVerifies(out.shares[i])

\* C27: the manifest of every import an unlock retains from a sender with a
\* user's own keys is a manifest that sender signed for the unlocking user:
\* the fs ids and the db ids of a share the sender made
C27_SignedContextGivesTheManifest ==
    out.op = "unlock" =>
        \A i \in 1..Len(out.res.user.imports) :
            LET imp == out.res.user.imports[i] IN
            imp.sender = Public(imp.sender.id) =>
                \E made \in MadeShares :
                    /\ made.sender = imp.sender
                    /\ made.export.receiver = out._pub.id
                    /\ Range(made.export.fs) = DOMAIN imp.bundle.fs
                    /\ Range(made.export.db) = DOMAIN imp.bundle.db

----------------------------------------------------------------------------
(* Claims about the current directory, checked under SpecProtocol          *)

\* C28: between the calls cd is None or the id of a directory of the local
\* file system, and a cd_to_dir that returned an error has left cd as it was
C28_CdIsADirectory ==
    protocol.pc = "idle" =>
        /\ \/ protocol.cd = None
           \/ /\ protocol.cd.val \in DOMAIN protocol.fs
              /\ protocol.fs[protocol.cd.val].dir
        /\ out.op = "cd_to_dir" /\ out.res.tag = "Err" => protocol.cd = out.cd

====
